---- MODULE Spec2Model ----
(***************************************************************************)
(* A model of solver.py: the biased-randomised selector _bra, and the      *)
(* Solver class (heuristic, getCost, __call__, sequential).                *)
(*                                                                         *)
(* Objects with identity (Pallet) live in `heap`, addressed by pallet ids; *)
(* an OrderLine is an index 1..n into `lines`, its mutable `pallet`        *)
(* back-reference is `linePallet`.  The packing module (Pallet, dubePacker)*)
(* is not part of solver.py: the oracle is a nondeterministic choice of    *)
(* success or failure and, on success, of a layer assignment.              *)
(***************************************************************************)
EXTENDS Integers, Sequences, FiniteSets, TLC

\* ------------------------------------------------------------------ bounds
NumLines == 3         \* order lines of a heuristic / sequential run
MaxLineWeight == 2    \* an order line weighs 1..MaxLineWeight
MaxLineVolume == 2    \* an order line takes 1..MaxLineVolume
NumLayers == 2        \* layer indices the oracle assigns: 0..NumLayers-1
MaxStrength == 2      \* strength of a case: 1..MaxStrength
MaxDraw == 3          \* int(log(u, 1-beta)) ranges over 0..MaxDraw
MaxLen == 3           \* length of the list handed to a stand-alone _bra
MaxElem == 2          \* elements of that list: 1..MaxElem
MaxIter == 2          \* passes of the while loop of __call__ per invocation
MaxCalls == 2         \* invocations of __call__ on one Solver
MaxDist == 2          \* the two unit distances of a matrix: 1..MaxDist
DriverLines == 2      \* order lines of a Solver driven by __call__
MaxSwaps == 2         \* reorderings of the solution handed to a stand-alone getCost

None == 0             \* Python's None, as the absent pallet reference
Depot == 0            \* the depot is location 0: dists[0, ...]

\* ----------------------------------------------------------------- helpers
Range(s) == {s[i] : i \in 1..Len(s)}

RemoveAt(s, i) == [j \in 1..(Len(s) - 1) |-> IF j < i THEN s[j] ELSE s[j + 1]]

\* list.remove(x): removes the first element equal to x
ListRemove(s, x) ==
    IF x \in Range(s)
    THEN RemoveAt(s, CHOOSE i \in 1..Len(s) : s[i] = x /\ \A j \in 1..(i - 1) : s[j] # x)
    ELSE s

Count(s, x) == Cardinality({i \in 1..Len(s) : s[i] = x})

IsPermutationOf(s, t) ==
    /\ Len(s) = Len(t)
    /\ \A x \in Range(s) \cup Range(t) : Count(s, x) = Count(t, x)

\* all sequences without repetition over the finite set S
Arrangements(S) ==
    {s \in [1..Cardinality(S) -> S] : \A i, j \in 1..Cardinality(S) : s[i] = s[j] => i = j}

SeqsUpTo(S, n) == UNION {[1..k -> S] : k \in 0..n}

RECURSIVE SumSeq(_)
SumSeq(s) == IF s = <<>> THEN 0 ELSE s[1] + SumSeq(Tail(s))

RECURSIVE SumOver(_, _)
SumOver(f, S) ==
    IF S = {} THEN 0 ELSE LET x == CHOOSE y \in S : TRUE IN f[x] + SumOver(f, S \ {x})

Min(S) == CHOOSE x \in S : \A y \in S : x <= y

\* a stable sort of the pairs <<item, key>> of s by ascending key, as Python's
\* sorted / list.sort order them: equal keys keep their original order
RECURSIVE InsertStable(_, _)
InsertStable(sorted, x) ==
    IF sorted = <<>> THEN <<x>>
    ELSE IF x[2] < sorted[1][2] THEN <<x>> \o sorted
    ELSE <<sorted[1]>> \o InsertStable(Tail(sorted), x)

RECURSIVE StableSort(_)
StableSort(s) ==
    IF s = <<>> THEN <<>>
    ELSE InsertStable(StableSort(SubSeq(s, 1, Len(s) - 1)), s[Len(s)])

\* ------------------------------------------------------------------- state
VARIABLES
    \* a _bra generator (stand-alone, or the one driving the merge sweep)
    array,        \* the caller's list, the argument of _bra
    arr,          \* arr = list(array), what is left to yield
    braL,         \* L = len(array)
    braI,         \* passes of `for _ in range(L)` made so far
    yielded,      \* what the generator has yielded so far, in order
    gen,          \* "none" | "running" | "stopped" | "raised"
    \* the Solver
    lines,        \* self.orderlines: [weight, volume, location, strength] per order line
    linePallet,   \* orderline.pallet: a pallet id, or None
    edges,        \* self.edges: a tuple of [origin, end, saving], endpoints are order lines
    dists,        \* self.dists
    pallet_size, pallet_max_weight,
    history,      \* self.history
    heap,         \* the Pallet objects alive, by id
    \* the method running and its locals
    method,       \* the method the client invoked: "none" | "heuristic" | "sequential" | "call"
    pc,           \* where control is
    palletsList,  \* palletsList of heuristic / sequential: a list of pallet ids
    nextLine,     \* the order line the construction loop handles next
    pairs,        \* sequential: the pairs itertools.permutations has still to give
    best, bestcost, iterations, maxtime,   \* locals of __call__
    phase,        \* __call__: "none" | "seed" (line 211) | "iter" (lines 216-227)
    returned,     \* the value the last finished invocation returned, None before
    \* history variables of the verification
    calls,        \* invocations of __call__ begun on this Solver
    genMin,       \* the least cost among the solutions the running __call__ generated
    lastCost,     \* the cost of the solution it generated last
    histMark,     \* len(self.history) when the running __call__ began
    merges,       \* successful merges of the running heuristic / sequential
    oracleLog,    \* the oracle calls of the running heuristic / sequential, in order
    \* a stand-alone getCost
    costSolution, costResult, costFirst,
    costSwaps     \* reorderings of the solution made so far

braVars == <<array, arr, braL, braI, yielded, gen>>
inputVars == <<lines, edges, dists, pallet_size, pallet_max_weight>>
callVars == <<best, bestcost, iterations, maxtime, phase, calls, genMin, lastCost, histMark>>
runVars == <<palletsList, nextLine, pairs, merges, oracleLog>>
solverVars == <<inputVars, linePallet, history, heap, method, pc, runVars, callVars, returned>>
costVars == <<costSolution, costResult, costFirst, costSwaps>>
vars == <<braVars, solverVars, costVars>>

\* -------------------------------------------------------------------- _bra
\* line 55: idx = int(log(random.random(), 1.0 - beta)) % len(arr), r the logarithm
BraIndex(r, a) == r % Len(a)

\* (a variant of BraPop: the element is read and left in the list)
BraPeek(a, idx) == [item |-> a[idx + 1], rest |-> a]

\* line 56: arr.pop(idx)
BraPop(a, idx) == [item |-> a[idx + 1], rest |-> RemoveAt(a, idx + 1)]

\* line 52: arr is a copy of array, so a pop from arr leaves the caller's list alone
BraCallerList(callerList, poppedArr) == callerList

\* (a variant of BraLen: the loop makes one pass less)
BraLenShort(a) == IF Len(a) > 0 THEN Len(a) - 1 ELSE 0

\* line 53: L = len(array)
BraLen(a) == Len(a)

\* lines 52-53, run at the first next(): the generator's locals
BraBegin(a) ==
    /\ array' = a
    /\ arr' = a
    /\ braL' = BraLen(a)
    /\ braI' = 0
    /\ yielded' = <<>>
    /\ gen' = "running"

\* lines 54-56: one pass of the loop, yielding BraPop(...).item
BraCanYield == gen = "running" /\ braI < braL /\ Len(arr) > 0

BraAdvance(r) ==
    LET popped == BraPop(arr, BraIndex(r, arr)) IN
    /\ arr' = popped.rest
    /\ array' = BraCallerList(array, popped.rest)
    /\ braI' = braI + 1
    /\ yielded' = Append(yielded, popped.item)
    /\ UNCHANGED <<braL, gen>>

\* line 54: range(L) is exhausted, the generator stops
BraExhausted == gen = "running" /\ braI >= braL

\* line 55: random.random() gave 0.0 and log raises ValueError, or arr is empty
\* and the modulo raises ZeroDivisionError
BraFails ==
    /\ gen' = "raised"
    /\ UNCHANGED <<array, arr, braL, braI, yielded>>

BraIdle == array = <<>> /\ arr = <<>> /\ braL = 0 /\ braI = 0 /\ yielded = <<>> /\ gen = "none"

\* ------------------------------------------------------- packing (external)
\* Pallet(pallet_size, pallet_max_weight): an empty, active pallet at full capacity
NewPallet(size, maxWeight) ==
    [maxWeight |-> maxWeight, maxVolume |-> size[1] * size[2] * size[3],
     weight |-> 0, volume |-> 0, orderlines |-> {}, cases |-> <<>>,
     layersMap |-> <<>>, active |-> TRUE]

\* the layer indices of a packing start at the bottom and leave no layer empty
DenseLayers(layerOf, S) ==
    \A ol \in S : layerOf[ol] = 0 \/ \E o2 \in S : layerOf[o2] = layerOf[ol] - 1

\* dubePacker, when it succeeds on the order lines S: every layer assignment it may
\* return, a mapping kept as the list of its items <<order line, layer>> in
\* insertion order
OraclePackings(S) ==
    {[i \in 1..Cardinality(S) |-> <<order[i], layerOf[order[i]]>>] :
        order \in Arrangements(S),
        layerOf \in {f \in [S -> 0..(NumLayers - 1)] : DenseLayers(f, S)}}

\* (a variant of VisitOrder: the entries are taken as the mapping holds them)
VisitOrderUnsorted(layersMap) == [i \in 1..Len(layersMap) |-> layersMap[i][1]]

\* the order lines of a layer assignment from the bottom layer up
\* (line 184: sorted by layer, equal layers in the mapping's order)
VisitOrder(layersMap) ==
    LET sorted == StableSort(layersMap) IN [i \in 1..Len(sorted) |-> sorted[i][1]]

\* packedCases of a successful dubePacker: the cases (one per order line, named
\* by it) from the bottom layer up
PackedCases(layersMap) == VisitOrder(layersMap)

\* ---------------------------------------------------------------- the heap
EmptyHeap == [i \in {} |-> NewPallet(<<0, 0, 0>>, 0)]

NewId(h) == Min({i \in 1..(Cardinality(DOMAIN h) + 1) : i \notin DOMAIN h})

NoReturn == [kind |-> "none", by |-> "none"]

ReturnedPallets(ret) ==
    IF ret.kind = "list" THEN Range(ret.pallets)
    ELSE IF ret.kind = "triple" THEN Range(ret.best)
    ELSE {}

\* the pallets some reference still reaches; the others are garbage
Reachable(list, bestList, ret, backRefs) ==
    Range(list) \cup Range(bestList) \cup ReturnedPallets(ret)
        \cup ({backRefs[ol] : ol \in DOMAIN backRefs} \ {None})

Collect(h, live) == [i \in (DOMAIN h) \cap live |-> h[i]]

Records(h, list) == [i \in 1..Len(list) |-> h[list[i]]]

\* ------------------------------------------------------------------ getCost
CostError == -1     \* IndexError: a pallet with an empty layer assignment

\* lines 184-186: the route of one pallet
PalletCost(pallet, d, ls) ==
    LET sort_orderlines == VisitOrder(pallet.layersMap)
        n == Len(sort_orderlines)
    IN  d[Depot, ls[sort_orderlines[1]].location] + d[ls[sort_orderlines[n]].location, Depot]
        + SumSeq([i \in 1..(n - 1) |->
                    d[ls[sort_orderlines[i]].location, ls[sort_orderlines[i + 1]].location]])

\* (a variant of GetCostFrom: the depot legs of every pallet but the first are dropped)
RECURSIVE GetCostFirstLegs(_, _, _, _)
GetCostFirstLegs(total, solution, d, ls) ==
    IF solution = <<>> THEN total
    ELSE LET order == VisitOrder(solution[1].layersMap)
             legs == d[Depot, ls[order[1]].location] + d[ls[order[Len(order)]].location, Depot]
         IN  GetCostFirstLegs(total + PalletCost(solution[1], d, ls)
                                    - (IF total = 0 THEN 0 ELSE legs),
                              Tail(solution), d, ls)

\* lines 182-187
RECURSIVE GetCostFrom(_, _, _, _)
GetCostFrom(total, solution, d, ls) ==
    IF solution = <<>> THEN total
    ELSE GetCostFrom(total + PalletCost(solution[1], d, ls), Tail(solution), d, ls)

GetCost(solution, d, ls) ==
    IF \E i \in 1..Len(solution) : solution[i].layersMap = <<>>
    THEN CostError
    ELSE GetCostFrom(0, solution, d, ls)

\* ---------------------------------------------------------------- heuristic
\* line 123: sorted(self.edges, key=attrgetter("saving"), reverse=True)
SavingsList(es) ==
    LET sorted == StableSort([i \in 1..Len(es) |-> <<es[i], 0 - es[i].saving>>])
    IN  [i \in 1..Len(sorted) |-> sorted[i][1]]

\* lines 115-119: the pallet built for one order line
ConstructedPallet(p, ol, line, packing) ==
    [p EXCEPT !.cases = PackedCases(packing), !.layersMap = packing,
              !.weight = line.weight, !.volume = line.volume,
              !.orderlines = p.orderlines \cup {ol}]

\* (a variant of VolumeBoundExceeded: the volumes are not compared)
VolumeBoundIgnored(host, hosted) == FALSE

\* line 135 (and 262): the volumetric bound
VolumeBoundExceeded(host, hosted) == host.volume + hosted.volume > host.maxVolume

\* (a variant of WeightBoundExceeded: a pallet filled to its maximum is refused)
WeightBoundReached(host, hosted) == host.weight + hosted.weight >= host.maxWeight

\* line 138 (and 265): the weight bound
WeightBoundExceeded(host, hosted) == host.weight + hosted.weight > host.maxWeight

\* (a variant of MergedPallet: the weight of hosted is not added)
MergedPalletLighter(host, hosted, packing) ==
    [host EXCEPT !.cases = PackedCases(packing), !.layersMap = packing,
                 !.volume = host.volume + hosted.volume,
                 !.orderlines = host.orderlines \cup hosted.orderlines]

\* lines 143-147 and 157-161 (and 270-274): host absorbs hosted
MergedPallet(host, hosted, packing) ==
    [host EXCEPT !.cases = PackedCases(packing), !.layersMap = packing,
                 !.weight = host.weight + hosted.weight,
                 !.volume = host.volume + hosted.volume,
                 !.orderlines = host.orderlines \cup hosted.orderlines]

\* (a variant of Repoint: the back-references are left as they were)
RepointNothing(backRefs, moved, hostId) == backRefs

\* lines 149-150 and 163-164 (and 276-277): for line in hosted.orderlines: line.pallet = host
Repoint(backRefs, moved, hostId) ==
    [ol \in DOMAIN backRefs |-> IF ol \in moved THEN hostId ELSE backRefs[ol]]

\* (a variant of WithoutHosted: the absorbed pallet stays in the list)
KeptHosted(list, hostedId) == list

\* line 148 and 162: palletsList.remove(hosted)
WithoutHosted(list, hostedId) == ListRemove(list, hostedId)

OracleCall(host, hosted, done) == [host |-> host, hosted |-> hosted, done |-> done]

\* lines 108-110 (and 240-241): the locals of a fresh run
RunEntry ==
    /\ palletsList' = <<>>
    /\ nextLine' = 1
    /\ pairs' = <<>>
    /\ merges' = 0
    /\ oracleLog' = <<>>
    /\ pc' = "construct"

\* the client invokes heuristic(beta) on a fresh Solver
CallHeuristic ==
    /\ pc = "idle" /\ method = "none" /\ returned.kind = "none" /\ calls = 0
    /\ method' = "heuristic"
    /\ RunEntry
    /\ UNCHANGED <<braVars, inputVars, linePallet, history, heap, callVars, returned, costVars>>

\* (a variant of ConstructLine: the pallet the order line points at is taken again)
ConstructLineReusing ==
    /\ pc = "construct" /\ nextLine <= Len(lines)
    /\ \E packing \in OraclePackings({nextLine}) :
         LET p == IF linePallet[nextLine] # None THEN linePallet[nextLine] ELSE NewId(heap)
             rec == ConstructedPallet(NewPallet(pallet_size, pallet_max_weight),
                                      nextLine, lines[nextLine], packing)
             lp == [linePallet EXCEPT ![nextLine] = p]
             pl == Append(palletsList, p)
             h == [i \in (DOMAIN heap) \cup {p} |-> IF i = p THEN rec ELSE heap[i]]
         IN  /\ linePallet' = lp
             /\ palletsList' = pl
             /\ heap' = Collect(h, Reachable(pl, best, returned, lp))
             /\ oracleLog' = <<OracleCall(p, nextLine, TRUE)>>
    /\ nextLine' = nextLine + 1
    /\ UNCHANGED <<braVars, inputVars, history, method, pc, pairs, merges, callVars,
                   returned, costVars>>

\* lines 111-120 and 243-252, one pass: the oracle packs the order line alone
ConstructLine ==
    /\ pc = "construct" /\ nextLine <= Len(lines)
    /\ \E packing \in OraclePackings({nextLine}) :
         LET p == NewId(heap)
             rec == ConstructedPallet(NewPallet(pallet_size, pallet_max_weight),
                                      nextLine, lines[nextLine], packing)
             lp == [linePallet EXCEPT ![nextLine] = p]
             pl == Append(palletsList, p)
             h == [i \in (DOMAIN heap) \cup {p} |-> IF i = p THEN rec ELSE heap[i]]
         IN  /\ linePallet' = lp
             /\ palletsList' = pl
             /\ heap' = Collect(h, Reachable(pl, best, returned, lp))
             /\ oracleLog' = <<OracleCall(p, nextLine, TRUE)>>
    /\ nextLine' = nextLine + 1
    /\ UNCHANGED <<braVars, inputVars, history, method, pc, pairs, merges, callVars,
                   returned, costVars>>

\* (a variant of ConstructFails: the failure is not checked, the loop goes on)
ConstructFailsUnchecked ==
    /\ pc = "construct" /\ nextLine <= Len(lines)
    /\ oracleLog' = <<OracleCall(NewId(heap), nextLine, FALSE)>>
    /\ nextLine' = nextLine + 1
    /\ UNCHANGED <<braVars, inputVars, linePallet, history, heap, method, pc, palletsList,
                   pairs, merges, callVars, returned, costVars>>

\* lines 113-114 and 245-246: the oracle fails, `assert done == True` raises
ConstructFails ==
    /\ pc = "construct" /\ nextLine <= Len(lines)
    /\ oracleLog' = <<OracleCall(NewId(heap), nextLine, FALSE)>>
    /\ pc' = "aborted"
    /\ UNCHANGED <<braVars, inputVars, linePallet, history, heap, method, palletsList,
                   nextLine, pairs, merges, callVars, returned, costVars>>

\* lines 123-126: the savings list, and the generator's first next()
BeginSweep ==
    /\ pc = "construct" /\ nextLine > Len(lines)
    /\ method \in {"heuristic", "call"}
    /\ BraBegin(SavingsList(edges))
    /\ pc' = "sweep"
    /\ oracleLog' = <<>>
    /\ UNCHANGED <<inputVars, linePallet, history, heap, method, palletsList, nextLine,
                   pairs, merges, callVars, returned, costVars>>

\* lines 128-129: the edge the generator yields for the draw r, and its pallets
DrawnEdge(r) == BraPop(arr, BraIndex(r, arr)).item
\* (a variant of HostedOf: the pallet of the order line after the edge's end)
HostedOfNext(e) == linePallet[(e.end % Len(lines)) + 1]
HostOf(e) == linePallet[e.origin]
HostedOf(e) == linePallet[e.end]

SweepFrame == UNCHANGED <<inputVars, history, method, pc, nextLine, pairs, callVars,
                          returned, costVars>>

\* an edge that changes nothing
SweepSkips(r, log) ==
    /\ BraAdvance(r)
    /\ oracleLog' = log
    /\ UNCHANGED <<linePallet, heap, palletsList, merges>>
    /\ SweepFrame

\* lines 143-151 / 157-164: the merge of hosted into host
SweepMerges(r, host, hosted, packing, log) ==
    LET h == [heap EXCEPT ![host] = MergedPallet(heap[host], heap[hosted], packing)]
        pl == WithoutHosted(palletsList, hosted)
        lp == Repoint(linePallet, heap[hosted].orderlines, host)
    IN  /\ BraAdvance(r)
        /\ oracleLog' = log
        /\ palletsList' = pl
        /\ linePallet' = lp
        /\ heap' = Collect(h, Reachable(pl, best, returned, lp))
        /\ merges' = merges + 1
        /\ SweepFrame

\* lines 132-133
SweepSkipSame ==
    /\ pc = "sweep" /\ BraCanYield
    /\ \E r \in 0..MaxDraw :
         LET e == DrawnEdge(r) IN
         /\ HostOf(e) = HostedOf(e)
         /\ SweepSkips(r, <<>>)

\* lines 135-136
SweepSkipVolume ==
    /\ pc = "sweep" /\ BraCanYield
    /\ \E r \in 0..MaxDraw :
         LET e == DrawnEdge(r) IN
         /\ HostOf(e) # HostedOf(e)
         /\ VolumeBoundExceeded(heap[HostOf(e)], heap[HostedOf(e)])
         /\ SweepSkips(r, <<>>)

\* lines 138-139
SweepSkipWeight ==
    /\ pc = "sweep" /\ BraCanYield
    /\ \E r \in 0..MaxDraw :
         LET e == DrawnEdge(r) IN
         /\ HostOf(e) # HostedOf(e)
         /\ ~VolumeBoundExceeded(heap[HostOf(e)], heap[HostedOf(e)])
         /\ WeightBoundExceeded(heap[HostOf(e)], heap[HostedOf(e)])
         /\ SweepSkips(r, <<>>)

\* lines 132-141: the edge passes the three checks and the oracle is tried
Attempted(e) ==
    /\ HostOf(e) # HostedOf(e)
    /\ ~VolumeBoundExceeded(heap[HostOf(e)], heap[HostedOf(e)])
    /\ ~WeightBoundExceeded(heap[HostOf(e)], heap[HostedOf(e)])

\* lines 141-151: the oracle succeeds in the edge's orientation
SweepMergeForward ==
    /\ pc = "sweep" /\ BraCanYield
    /\ \E r \in 0..MaxDraw :
         LET e == DrawnEdge(r)
             host == HostOf(e)
             hosted == HostedOf(e)
         IN  /\ Attempted(e)
             /\ \E packing \in OraclePackings(heap[host].orderlines \cup heap[hosted].orderlines) :
                  SweepMerges(r, host, hosted, packing, <<OracleCall(host, hosted, TRUE)>>)

\* (a variant of SweepMergeReverse: the second call repeats the first orientation)
SweepMergeUnswapped ==
    /\ pc = "sweep" /\ BraCanYield
    /\ \E r \in 0..MaxDraw :
         LET e == DrawnEdge(r)
             host == HostOf(e)
             hosted == HostedOf(e)
         IN  /\ Attempted(e)
             /\ \E packing \in OraclePackings(heap[host].orderlines \cup heap[hosted].orderlines) :
                  SweepMerges(r, host, hosted, packing,
                              <<OracleCall(host, hosted, FALSE), OracleCall(host, hosted, TRUE)>>)

\* lines 154-164: it fails, and succeeds with host and hosted swapped
SweepMergeReverse ==
    /\ pc = "sweep" /\ BraCanYield
    /\ \E r \in 0..MaxDraw :
         LET e == DrawnEdge(r)
             host == HostedOf(e)
             hosted == HostOf(e)
         IN  /\ Attempted(e)
             /\ \E packing \in OraclePackings(heap[host].orderlines \cup heap[hosted].orderlines) :
                  SweepMerges(r, host, hosted, packing,
                              <<OracleCall(hosted, host, FALSE), OracleCall(host, hosted, TRUE)>>)

\* lines 141-156: it fails both ways
SweepNoMerge ==
    /\ pc = "sweep" /\ BraCanYield
    /\ \E r \in 0..MaxDraw :
         LET e == DrawnEdge(r) IN
         /\ Attempted(e)
         /\ SweepSkips(r, <<OracleCall(HostOf(e), HostedOf(e), FALSE),
                            OracleCall(HostedOf(e), HostOf(e), FALSE)>>)

\* line 55 inside the sweep: the draw raises, and the exception leaves heuristic
SweepRaises ==
    /\ pc = "sweep" /\ gen = "running" /\ braI < braL
    /\ BraFails
    /\ pc' = "aborted"
    /\ oracleLog' = <<>>
    /\ UNCHANGED <<inputVars, linePallet, history, heap, method, palletsList, nextLine,
                   pairs, merges, callVars, returned, costVars>>

\* line 54: range(L) is exhausted, the generator stops and the for loop of
\* line 126 ends
SweepEnds ==
    /\ pc = "sweep" /\ BraExhausted
    /\ gen' = "stopped"
    /\ pc' = "return"
    /\ oracleLog' = <<>>
    /\ UNCHANGED <<array, arr, braL, braI, yielded, inputVars, linePallet, history, heap,
                   method, palletsList, nextLine, pairs, merges, callVars, returned,
                   costVars>>

\* a return of heuristic or sequential: its locals, the generator among them, are gone
RunExit ==
    /\ array' = <<>> /\ arr' = <<>> /\ braL' = 0 /\ braI' = 0 /\ yielded' = <<>>
    /\ gen' = "none"
    /\ palletsList' = <<>>
    /\ nextLine' = 1
    /\ pairs' = <<>>
    /\ merges' = 0
    /\ oracleLog' = <<>>

\* line 167, heuristic called by the client: return palletsList
HeuristicReturn ==
    /\ pc = "return" /\ method = "heuristic"
    /\ returned' = [kind |-> "list", by |-> "heuristic", pallets |-> palletsList]
    /\ RunExit
    /\ pc' = "idle"
    /\ method' = "none"
    /\ UNCHANGED <<inputVars, linePallet, history, heap, callVars, costVars>>

Heuristic ==
    \/ ConstructLine \/ ConstructFails \/ BeginSweep
    \/ SweepSkipSame \/ SweepSkipVolume \/ SweepSkipWeight
    \/ SweepMergeForward \/ SweepMergeReverse \/ SweepNoMerge \/ SweepRaises
    \/ SweepEnds

\* --------------------------------------------------------------- sequential
\* line 255: palletsList.sort(key=lambda i: i.cases[0].strength, reverse=True)
SortedByStrength(list, h, ls) ==
    LET sorted == StableSort([i \in 1..Len(list) |->
                                <<list[i], 0 - ls[h[list[i]].cases[1]].strength>>])
    IN  [i \in 1..Len(sorted) |-> sorted[i][1]]

\* line 258: itertools.permutations(palletsList, 2), in the order it gives them
Permutations2(list) ==
    LET n == Len(list) IN
    [k \in 1..(n * (n - 1)) |->
        LET i == ((k - 1) \div (n - 1)) + 1
            jj == ((k - 1) % (n - 1)) + 1
            j == IF jj < i THEN jj ELSE jj + 1
        IN  <<list[i], list[j]>>]

\* line 279: list(filter(attrgetter("active"), palletsList))
ActiveOnly(list, h) == SelectSeq(list, LAMBDA p : h[p].active)

\* (a variant of Deactivated: the absorbed pallet stays active)
LeftActive(pallet) == pallet

\* line 275: jPallet.active = False
Deactivated(pallet) == [pallet EXCEPT !.active = FALSE]

\* the client invokes sequential() on a fresh Solver
CallSequential ==
    /\ pc = "idle" /\ method = "none" /\ returned.kind = "none" /\ calls = 0
    /\ method' = "sequential"
    /\ RunEntry
    /\ UNCHANGED <<braVars, inputVars, linePallet, history, heap, callVars, returned, costVars>>

\* lines 255-258: sort the pallets, start the pairs
SeqBeginPairs ==
    /\ pc = "construct" /\ nextLine > Len(lines)
    /\ method = "sequential"
    /\ palletsList' = SortedByStrength(palletsList, heap, lines)
    /\ pairs' = Permutations2(palletsList')
    /\ pc' = "pairs"
    /\ oracleLog' = <<>>
    /\ UNCHANGED <<braVars, inputVars, linePallet, history, heap, method, nextLine, merges,
                   callVars, returned, costVars>>

SeqFrame == UNCHANGED <<braVars, inputVars, history, method, pc, palletsList, nextLine,
                        callVars, returned, costVars>>

SeqSkips(log) ==
    /\ pairs' = Tail(pairs)
    /\ oracleLog' = log
    /\ UNCHANGED <<linePallet, heap, merges>>
    /\ SeqFrame

BothActive(pair) == heap[pair[1]].active /\ heap[pair[2]].active

\* line 260: one of the two has been merged into another
SeqSkipInactive ==
    /\ pc = "pairs" /\ pairs # <<>>
    /\ ~BothActive(Head(pairs))
    /\ SeqSkips(<<>>)

\* lines 262-263
SeqSkipVolume ==
    /\ pc = "pairs" /\ pairs # <<>>
    /\ BothActive(Head(pairs))
    /\ VolumeBoundExceeded(heap[Head(pairs)[1]], heap[Head(pairs)[2]])
    /\ SeqSkips(<<>>)

\* lines 265-266
SeqSkipWeight ==
    /\ pc = "pairs" /\ pairs # <<>>
    /\ BothActive(Head(pairs))
    /\ ~VolumeBoundExceeded(heap[Head(pairs)[1]], heap[Head(pairs)[2]])
    /\ WeightBoundExceeded(heap[Head(pairs)[1]], heap[Head(pairs)[2]])
    /\ SeqSkips(<<>>)

SeqAttempted(pair) ==
    /\ BothActive(pair)
    /\ ~VolumeBoundExceeded(heap[pair[1]], heap[pair[2]])
    /\ ~WeightBoundExceeded(heap[pair[1]], heap[pair[2]])

\* lines 268-277: iPallet absorbs jPallet, which stays in the list, inactive
SeqMerge ==
    /\ pc = "pairs" /\ pairs # <<>>
    /\ SeqAttempted(Head(pairs))
    /\ LET iPallet == Head(pairs)[1]
           jPallet == Head(pairs)[2]
       IN  \E packing \in OraclePackings(heap[iPallet].orderlines \cup heap[jPallet].orderlines) :
             /\ heap' = [heap EXCEPT
                           ![iPallet] = MergedPallet(heap[iPallet], heap[jPallet], packing),
                           ![jPallet] = Deactivated(heap[jPallet])]
             /\ linePallet' = Repoint(linePallet, heap[jPallet].orderlines, iPallet)
             /\ oracleLog' = <<OracleCall(iPallet, jPallet, TRUE)>>
    /\ pairs' = Tail(pairs)
    /\ merges' = merges + 1
    /\ SeqFrame

\* lines 268-269: the oracle fails, no retry
SeqNoMerge ==
    /\ pc = "pairs" /\ pairs # <<>>
    /\ SeqAttempted(Head(pairs))
    /\ SeqSkips(<<OracleCall(Head(pairs)[1], Head(pairs)[2], FALSE)>>)

\* lines 279-280
SeqReturn ==
    /\ pc = "pairs" /\ pairs = <<>>
    /\ LET ret == [kind |-> "list", by |-> "sequential",
                   pallets |-> ActiveOnly(palletsList, heap)] IN
       /\ returned' = ret
       /\ heap' = Collect(heap, Reachable(<<>>, best, ret, linePallet))
    /\ RunExit
    /\ pc' = "idle"
    /\ method' = "none"
    /\ UNCHANGED <<inputVars, linePallet, history, callVars, costVars>>

Sequential ==
    \/ SeqBeginPairs \/ SeqSkipInactive \/ SeqSkipVolume \/ SeqSkipWeight
    \/ SeqMerge \/ SeqNoMerge \/ SeqReturn

\* ----------------------------------------------------------------- __call__
\* line 216: `time.time() - start < maxtime` can hold only for a positive maxtime;
\* the wall clock decides, so both outcomes are possible then
TimeLeft(mt) == mt > 0

\* (a variant of BetterOf: the new solution always replaces the best)
BetterOfLatest(oldBest, oldCost, newsol, newcost) == [best |-> newsol, bestcost |-> newcost]

\* lines 224-225: the best after a new solution
BetterOf(oldBest, oldCost, newsol, newcost) ==
    IF newcost < oldCost
    THEN [best |-> newsol, bestcost |-> newcost]
    ELSE [best |-> oldBest, bestcost |-> oldCost]

\* (a variant of Saved: the best cost is written over the last entry)
SavedOver(hist, cost) ==
    IF hist = <<>> THEN <<cost>> ELSE [hist EXCEPT ![Len(hist)] = cost]

\* line 227: save(bestcost), on the Solver's deque
Saved(hist, cost) == Append(hist, cost)

\* the client invokes __call__(mt): lines 205-211, up to the call of heuristic
CallSolver ==
    /\ pc = "idle" /\ method = "none" /\ calls < MaxCalls
    /\ returned.kind \in {"none", "triple"}
    /\ \E mt \in 0..1 : maxtime' = mt
    /\ method' = "call"
    /\ phase' = "seed"
    /\ calls' = calls + 1
    /\ genMin' = 0
    /\ lastCost' = 0
    /\ histMark' = Len(history)
    /\ best' = <<>>
    /\ bestcost' = 0
    /\ iterations' = 0
    /\ returned' = NoReturn
    /\ RunEntry
    /\ heap' = Collect(heap, Reachable(<<>>, <<>>, NoReturn, linePallet))
    /\ UNCHANGED <<braVars, inputVars, linePallet, history, costVars>>

\* lines 211-215: heuristic(GREEDY_BETA) returns the seed
CallSeeded ==
    /\ pc = "return" /\ method = "call" /\ phase = "seed"
    /\ best' = palletsList
    /\ bestcost' = GetCost(Records(heap, palletsList), dists, lines)
    /\ iterations' = 0
    /\ genMin' = bestcost'
    /\ lastCost' = bestcost'
    /\ phase' = "iter"
    /\ pc' = "loop"
    /\ RunExit
    /\ UNCHANGED <<inputVars, linePallet, history, heap, method, maxtime, calls, histMark,
                   returned, costVars>>

\* lines 216-220: time is left, one more heuristic(beta)
CallIterate ==
    /\ pc = "loop" /\ TimeLeft(maxtime) /\ iterations < MaxIter
    /\ iterations' = iterations + 1
    /\ RunEntry
    /\ UNCHANGED <<braVars, inputVars, linePallet, history, heap, method, best, bestcost,
                   maxtime, phase, calls, genMin, lastCost, histMark, returned, costVars>>

\* lines 220-227: heuristic(beta) returns newsol
CallIterated ==
    /\ pc = "return" /\ method = "call" /\ phase = "iter"
    /\ LET newsol == palletsList
           newcost == GetCost(Records(heap, newsol), dists, lines)
           kept == BetterOf(best, bestcost, newsol, newcost)
       IN  /\ best' = kept.best
           /\ bestcost' = kept.bestcost
           /\ history' = Saved(history, kept.bestcost)
           /\ genMin' = Min({genMin, newcost})
           /\ lastCost' = newcost
           /\ heap' = Collect(heap, Reachable(<<>>, kept.best, returned, linePallet))
    /\ pc' = "loop"
    /\ RunExit
    /\ UNCHANGED <<inputVars, linePallet, method, iterations, maxtime, phase, calls,
                   histMark, returned, costVars>>

\* lines 216 and 229: the time is up
CallReturn ==
    /\ pc = "loop"
    /\ returned' = [kind |-> "triple", by |-> "call", best |-> best,
                    bestcost |-> bestcost, iterations |-> iterations]
    /\ best' = <<>>
    /\ phase' = "none"
    /\ pc' = "idle"
    /\ method' = "none"
    /\ UNCHANGED <<braVars, inputVars, linePallet, history, heap, runVars, bestcost,
                   iterations, maxtime, calls, genMin, lastCost, histMark, costVars>>

Driver == CallSeeded \/ CallIterate \/ CallIterated \/ CallReturn

\* ------------------------------------------------------- stand-alone _bra
BraFrame == UNCHANGED <<solverVars, costVars>>

BraNext ==
    /\ pc = "bra" /\ BraCanYield
    /\ \E r \in 0..MaxDraw : BraAdvance(r)
    /\ BraFrame

BraStop ==
    /\ pc = "bra" /\ BraExhausted
    /\ gen' = "stopped"
    /\ UNCHANGED <<array, arr, braL, braI, yielded>>
    /\ BraFrame

BraRaise ==
    /\ pc = "bra" /\ gen = "running" /\ braI < braL
    /\ BraFails
    /\ BraFrame

\* ----------------------------------------------------- stand-alone getCost
SwapAt(s, i) ==
    [j \in 1..Len(s) |-> IF j = i THEN s[i + 1] ELSE IF j = i + 1 THEN s[i] ELSE s[j]]

\* getCost(solution, dists); costResult and costFirst hold the value of the last
\* and of the first call, <<>> before any
CostEvaluate ==
    /\ pc = "cost"
    /\ costResult' = <<GetCost(costSolution, dists, lines)>>
    /\ costFirst' = IF costFirst = <<>> THEN costResult' ELSE costFirst
    /\ UNCHANGED <<costSolution, costSwaps, braVars, solverVars>>

\* the caller reorders the solution's pallets and calls getCost again
CostPermute ==
    /\ pc = "cost" /\ costFirst # <<>> /\ costSwaps < MaxSwaps
    /\ costSwaps' = costSwaps + 1
    /\ \E i \in 1..(Len(costSolution) - 1) : costSolution' = SwapAt(costSolution, i)
    /\ costResult' = <<GetCost(costSolution', dists, lines)>>
    /\ UNCHANGED <<costFirst, braVars, solverVars>>

\* ------------------------------------------------------------------ inputs
\* the kinds of order line: every weight with every volume, the strength of its
\* case following from them
LineKinds ==
    {[weight |-> w, volume |-> v, strength |-> ((w + v) % MaxStrength) + 1] :
        w \in 1..MaxLineWeight, v \in 1..MaxLineVolume}

\* self.orderlines: n order lines, order line i at location i
LineRecords(n) ==
    {[i \in 1..n |-> [weight |-> k[i].weight, volume |-> k[i].volume,
                      strength |-> k[i].strength, location |-> i]] :
        k \in [1..n -> LineKinds]}

PlainLines(n) == [i \in 1..n |-> [weight |-> 1, volume |-> 1, strength |-> 1, location |-> i]]

Edge(o, e, s) == [origin |-> o, end |-> e, saving |-> s]

\* every pair once, in a ring, with some equal savings
RingEdges(n) == [i \in 1..n |-> Edge(i, (i % n) + 1, (i % 2) + 1)]

\* a chain against the numbering, savings rising
ChainEdges(n) == [i \in 1..(n - 1) |-> Edge(i + 1, i, i)]

\* an edge from a line to itself, and one pair joined both ways
LoopEdges == <<Edge(1, 1, 1), Edge(2, 1, 2), Edge(1, 2, 2)>>

EdgeChoices(n) == {<<>>, RingEdges(n), ChainEdges(n), LoopEdges}

UnitDists(n) == [i \in 0..n, j \in 0..n |-> IF i = j THEN 0 ELSE 1]

\* the locations lie along one aisle: a move away from the depot costs `up` and 1
\* more for every location passed, a move back costs `down` whatever its length
\* (so the matrix is not symmetric)
DistChoices(n) ==
    {[i \in 0..n, j \in 0..n |->
        IF i = j THEN 0 ELSE IF i < j THEN up + (j - i - 1) ELSE down] :
        up \in 1..MaxDist, down \in 1..MaxDist}

SolverFresh(n) ==
    /\ linePallet = [i \in 1..n |-> None]
    /\ history = <<>>
    /\ heap = EmptyHeap
    /\ method = "none"
    /\ palletsList = <<>> /\ nextLine = 1 /\ pairs = <<>> /\ merges = 0 /\ oracleLog = <<>>
    /\ best = <<>> /\ bestcost = 0 /\ iterations = 0 /\ maxtime = 0 /\ phase = "none"
    /\ calls = 0 /\ genMin = 0 /\ lastCost = 0 /\ histMark = 0
    /\ returned = NoReturn

CostIdle == costSolution = <<>> /\ costResult = <<>> /\ costFirst = <<>> /\ costSwaps = 0

\* a Solver on which the client calls heuristic(beta) or sequential()
Init ==
    /\ lines \in LineRecords(NumLines)
    /\ edges \in EdgeChoices(NumLines)
    /\ dists = UnitDists(NumLines)
    /\ pallet_size = <<NumLines, 1, 1>>
    /\ pallet_max_weight \in {MaxLineWeight - 1, NumLines}
    /\ SolverFresh(NumLines)
    /\ pc = "idle"
    /\ BraIdle
    /\ CostIdle

Next == CallHeuristic \/ Heuristic \/ HeuristicReturn \/ CallSequential \/ Sequential

Spec == Init /\ [][Next]_vars

\* a Solver on which the client calls __call__(maxtime), more than once
InitDriver ==
    /\ lines \in LineRecords(DriverLines)
    /\ edges = RingEdges(DriverLines)
    /\ dists \in DistChoices(DriverLines)
    /\ pallet_size = <<DriverLines, 1, 1>>
    /\ pallet_max_weight = DriverLines
    /\ SolverFresh(DriverLines)
    /\ pc = "idle"
    /\ BraIdle
    /\ CostIdle

NextDriver == CallSolver \/ Heuristic \/ Driver

SpecDriver == InitDriver /\ [][NextDriver]_vars

\* a generator _bra(array, beta) the caller drives
InitBra ==
    /\ \E a \in SeqsUpTo(1..MaxElem, MaxLen) :
         /\ array = a /\ arr = a /\ braL = BraLen(a)
    /\ braI = 0 /\ yielded = <<>> /\ gen = "running"
    /\ lines = PlainLines(1) /\ edges = <<>> /\ dists = UnitDists(1)
    /\ pallet_size = <<1, 1, 1>> /\ pallet_max_weight = 1
    /\ SolverFresh(1)
    /\ pc = "bra"
    /\ CostIdle

NextBra == BraNext \/ BraStop \/ BraRaise

SpecBra == InitBra /\ [][NextBra]_vars

\* getCost on the solutions over some of the order lines: no order line is on
\* two pallets
CostPallets(S) ==
    {[NewPallet(<<NumLines, 1, 1>>, NumLines) EXCEPT
            !.layersMap = m, !.cases = PackedCases(m), !.weight = Cardinality(S),
            !.volume = Cardinality(S), !.orderlines = S] :
        m \in OraclePackings(S)}

RECURSIVE CostSolutions(_)
CostSolutions(free) ==
    {<<>>} \cup
    UNION {UNION {{<<p>> \o rest : p \in CostPallets(S)} : rest \in CostSolutions(free \ S)} :
              S \in (SUBSET free) \ {{}}}

InitCost ==
    /\ lines = PlainLines(NumLines)
    /\ edges = <<>>
    /\ dists \in DistChoices(NumLines)
    /\ pallet_size = <<NumLines, 1, 1>> /\ pallet_max_weight = NumLines
    /\ SolverFresh(NumLines)
    /\ pc = "cost"
    /\ BraIdle
    /\ costSolution \in CostSolutions(1..NumLines)
    /\ costResult = <<>> /\ costFirst = <<>> /\ costSwaps = 0

NextCost == CostEvaluate \/ CostPermute

SpecCost == InitCost /\ [][NextCost]_vars

\* a Solver whose oracle never fails: heuristic(beta) without the failure branches
NextAlways ==
    \/ CallHeuristic \/ ConstructLine \/ BeginSweep
    \/ SweepSkipSame \/ SweepSkipVolume \/ SweepSkipWeight
    \/ SweepMergeForward \/ SweepRaises \/ SweepEnds \/ HeuristicReturn

SpecAlways == Init /\ [][NextAlways]_vars

\* ------------------------------------------------------------ the claims
AllLines == DOMAIN lines

\* the positions of list whose pallet hosts ol
Hosts(list, ol) == {i \in 1..Len(list) : ol \in heap[list[i]].orderlines}

\* every order line is on exactly one pallet of list, and points back at it
Partitioned(list) ==
    \A ol \in AllLines :
        /\ Cardinality(Hosts(list, ol)) = 1
        /\ \A i \in Hosts(list, ol) : linePallet[ol] = list[i]

InSweep == method = "heuristic" /\ pc \in {"sweep", "return"}

ReturnedBy(m) == returned.kind = "list" /\ returned.by = m

\* C1: in heuristic(beta), from the end of the construction on (before and after
\* every drawn edge, and in the list returned) every order line is in the
\* orderlines set of exactly one pallet of the working list, and its pallet
\* back-reference is that pallet
C1_OneHostPerLine ==
    /\ InSweep => Partitioned(palletsList)
    /\ ReturnedBy("heuristic") => Partitioned(returned.pallets)

\* a pallet absorbed another with the edge turned round, and the sweep goes on
C1_Witness ==
    /\ InSweep /\ pc = "sweep" /\ merges >= 1
    /\ Len(oracleLog) = 2 /\ oracleLog[2].done
    /\ Len(palletsList) = Len(lines) - merges

LineWeight == [ol \in AllLines |-> lines[ol].weight]
LineVolume == [ol \in AllLines |-> lines[ol].volume]
MaxVolume == pallet_size[1] * pallet_size[2] * pallet_size[3]

\* C2 (as claimed): every pallet of a list heuristic(beta) or sequential()
\* returns has weight <= the configured maximum weight and volume <= the
\* configured maximum volume
C2_CapacityRespected ==
    returned.kind = "list" =>
        \A i \in 1..Len(returned.pallets) :
            /\ heap[returned.pallets[i]].weight <= pallet_max_weight
            /\ heap[returned.pallets[i]].volume <= MaxVolume

\* weight and volume of every pallet of list are those of the order lines it hosts
SumsExact(list) ==
    \A i \in 1..Len(list) :
        /\ heap[list[i]].weight = SumOver(LineWeight, heap[list[i]].orderlines)
        /\ heap[list[i]].volume = SumOver(LineVolume, heap[list[i]].orderlines)

HostedLines(h, list) == UNION {h[list[i]].orderlines : i \in 1..Len(list)}
HostedCount(h, list) == SumSeq([i \in 1..Len(list) |-> Cardinality(h[list[i]].orderlines)])

\* a step of the sweep that merges: one pallet leaves the list, and the other has
\* the sum of the two weights and volumes; the lines hosted are the same, none twice
MergeIsExact ==
    \E host, hosted \in Range(palletsList) :
        /\ host # hosted
        /\ palletsList' = ListRemove(palletsList, hosted)
        /\ heap'[host].weight = heap[host].weight + heap[hosted].weight
        /\ heap'[host].volume = heap[host].volume + heap[hosted].volume
        /\ heap'[host].orderlines = heap[host].orderlines \cup heap[hosted].orderlines
        /\ HostedLines(heap', palletsList') = HostedLines(heap, palletsList)
        /\ HostedCount(heap', palletsList') = HostedCount(heap, palletsList)

\* C3: a successful merge of heuristic (either orientation) leaves the survivor
\* with exactly the sum of the two weights and volumes and the working list with
\* the same order lines, none lost or duplicated; so every working pallet's weight
\* and volume are the sums over the order lines it hosts
C3_MergeExact ==
    /\ [](InSweep => SumsExact(palletsList))
    /\ [][(InSweep /\ merges' = merges + 1) => MergeIsExact]_vars

\* two merges have put the three order lines on one pallet, the last one reversed
C3_Witness ==
    /\ InSweep /\ merges = 2 /\ Len(palletsList) = 1
    /\ heap[palletsList[1]].orderlines = AllLines
    /\ Len(oracleLog) = 2

\* C4: _bra yields len(input) elements and stops; what it has yielded and what is
\* left are together a permutation of the input at every step, so the yielded
\* sequence is one in the end; the caller's list is never modified
C4_Permutation ==
    /\ [](pc = "bra" =>
            /\ IsPermutationOf(yielded \o arr, array)
            /\ braI = Len(yielded)
            /\ (gen = "running" /\ braI < braL) => Len(arr) > 0
            /\ gen = "stopped" => (Len(yielded) = Len(array) /\ IsPermutationOf(yielded, array)))
    /\ [][pc = "bra" => array' = array]_vars

\* the generator has stopped after yielding a list with a repeated element in
\* another order
C4_Witness ==
    /\ pc = "bra" /\ gen = "stopped"
    /\ Len(array) >= 3 /\ array[1] = array[2] /\ array[2] # array[3]
    /\ yielded # array

\* C5 (as claimed): every entry of the Solver's history is <= the entry before it
C5_HistoryNonIncreasing ==
    \A i \in 2..Len(history) : history[i] <= history[i - 1]

\* C6: __call__ replaces the best only by a strictly cheaper solution; at every
\* check of the loop, and in what it returns, bestcost is the least cost among the
\* seed and the solutions generated so far, and is the cost of the best solution
C6_Elitist ==
    /\ []((method = "call" /\ pc = "loop") =>
            /\ bestcost = genMin
            /\ bestcost = GetCost(Records(heap, best), dists, lines))
    /\ [](returned.kind = "triple" =>
            /\ returned.bestcost = genMin
            /\ returned.bestcost = GetCost(Records(heap, returned.best), dists, lines))
    /\ [][(method = "call" /\ pc = "return" /\ phase = "iter" /\ best' # best)
            => (bestcost' < bestcost /\ bestcost' = lastCost')]_vars
    /\ [][(method = "call" /\ pc = "return" /\ phase = "iter" /\ best' = best)
            => (bestcost' = bestcost /\ lastCost' >= bestcost)]_vars

\* the second pass has generated a solution that costs more than the best, and
\* the best and its cost are those of the pass before
C6_Witness ==
    /\ method = "call" /\ pc = "loop" /\ iterations = 2
    /\ lastCost > bestcost
    /\ Len(history) = histMark + 2
    /\ history[histMark + 1] = bestcost /\ history[histMark + 2] = bestcost

\* the edges, taken both ways, join every order line to order line 1
Neighbours(S) ==
    S \cup {edges[i].end : i \in {j \in 1..Len(edges) : edges[j].origin \in S}}
      \cup {edges[i].origin : i \in {j \in 1..Len(edges) : edges[j].end \in S}}

RECURSIVE Component(_)
Component(S) == IF Neighbours(S) = S THEN S ELSE Component(Neighbours(S))

Connected == Component({1}) = AllLines

AllFit ==
    /\ SumOver(LineWeight, AllLines) <= pallet_max_weight
    /\ SumOver(LineVolume, AllLines) <= MaxVolume

\* C7: with an oracle that never fails, a capacity that holds all the order lines
\* together and edges that connect them all, heuristic returns exactly one pallet,
\* hosting every order line, whatever the order of the draws
C7_SinglePallet ==
    (ReturnedBy("heuristic") /\ AllFit /\ Connected) =>
        /\ Len(returned.pallets) = 1
        /\ heap[returned.pallets[1]].orderlines = AllLines

\* one pallet is returned for three order lines joined by a chain of two edges
C7_Witness ==
    /\ ReturnedBy("heuristic") /\ AllFit /\ Connected
    /\ edges = ChainEdges(NumLines)
    /\ Len(returned.pallets) = 1

\* the oracle has failed on the order line the construction loop is at
ConstructionFailed ==
    /\ pc = "construct"
    /\ oracleLog' # <<>> /\ ~oracleLog'[Len(oracleLog')].done

\* every order line is on exactly one pallet of list
Complete(list) == \A ol \in AllLines : Cardinality(Hosts(list, ol)) = 1

\* C8: when the oracle fails in the construction step of heuristic or sequential,
\* the call aborts: that one oracle call is the last, no merge step follows and no
\* list is returned; a list that is returned is a complete solution
C8_ConstructionFailureAborts ==
    /\ [][ConstructionFailed =>
            /\ pc' = "aborted"
            /\ Len(oracleLog') = 1
            /\ UNCHANGED <<palletsList, heap, linePallet, returned, merges, gen>>]_vars
    /\ [][pc # "aborted"]_vars
    /\ []((pc = "aborted" /\ gen = "none") => (returned.kind = "none" /\ merges = 0))
    /\ [](returned.kind = "list" => Complete(returned.pallets))

\* sequential has aborted on its second order line
C8_Witness ==
    /\ pc = "aborted" /\ method = "sequential"
    /\ nextLine = 2 /\ Len(palletsList) = 1
    /\ Len(oracleLog) = 1 /\ ~oracleLog[1].done

\* C9 (as claimed): heuristic returns no list when an order line weighs more than
\* the configured maximum weight
C9_OverweightNeverReturned ==
    ReturnedBy("heuristic") => \A ol \in AllLines : lines[ol].weight <= pallet_max_weight

\* C10: getCost gives the same total for every order of the solution's pallets, and
\* again when it is called again; one pallet with one order line at location L
\* costs dists[0, L] + dists[L, 0]
C10_CostSymmetric ==
    (pc = "cost" /\ costResult # <<>>) =>
        /\ costResult = costFirst
        /\ (Len(costSolution) = 1 /\ Len(costSolution[1].layersMap) = 1) =>
              LET L == lines[costSolution[1].layersMap[1][1]].location
              IN  costResult[1] = dists[Depot, L] + dists[L, Depot]

\* three pallets whose routes cost differently, evaluated in a second order
C10_Witness ==
    /\ pc = "cost" /\ costSwaps = 1 /\ costResult # <<>>
    /\ Len(costSolution) = 3
    /\ PalletCost(costSolution[1], dists, lines) # PalletCost(costSolution[2], dists, lines)
    /\ dists[0, 1] # dists[1, 0]

\* the positions of a layer assignment in the order of the visit: lower layers
\* first, and the entries of one layer in the order the mapping holds them
RouteOrder(layersMap) ==
    CHOOSE v \in Arrangements(1..Len(layersMap)) :
        \A i, j \in 1..Len(layersMap) :
            i < j => \/ layersMap[v[i]][2] < layersMap[v[j]][2]
                     \/ (layersMap[v[i]][2] = layersMap[v[j]][2] /\ v[i] < v[j])

\* the locations the picker visits for one pallet, the depot at both ends
RouteStops(pallet) ==
    LET v == RouteOrder(pallet.layersMap) IN
    <<Depot>> \o [i \in 1..Len(v) |-> lines[pallet.layersMap[v[i]][1]].location] \o <<Depot>>

\* the length of a route, every leg read in the direction travelled
RouteLength(stops) == SumSeq([i \in 1..(Len(stops) - 1) |-> dists[stops[i], stops[i + 1]]])

TotalRouteLength(solution) ==
    SumSeq([k \in 1..Len(solution) |-> RouteLength(RouteStops(solution[k]))])

\* C11: getCost returns the sum over the pallets of the length of the route depot,
\* order lines by ascending layer (equal layers in the mapping's insertion order),
\* depot, each leg read from dists in the direction travelled; a call changes
\* neither the solution nor the matrix
C11_CostIsRouteLength ==
    /\ []((pc = "cost" /\ costResult # <<>>) =>
            costResult[1] = TotalRouteLength(costSolution))
    /\ [][(pc = "cost" /\ costSwaps' = costSwaps) =>
            (costSolution' = costSolution /\ dists' = dists /\ lines' = lines)]_vars

\* a pallet of three order lines has been evaluated: the entry inserted first is on
\* the upper layer, the two of the bottom layer were inserted against their
\* numbering, and the matrix is not symmetric
C11_Witness ==
    /\ pc = "cost" /\ costResult # <<>>
    /\ Len(costSolution) = 1 /\ Len(costSolution[1].layersMap) = 3
    /\ costSolution[1].layersMap[1][2] = 1
    /\ costSolution[1].layersMap[2][2] = 0 /\ costSolution[1].layersMap[3][2] = 0
    /\ costSolution[1].layersMap[2][1] > costSolution[1].layersMap[3][1]
    /\ dists[0, 1] # dists[1, 0]

\* a step of the merge sweep in which the generator yields an edge
EdgeDrawn == pc = "sweep" /\ braI' = braI + 1

\* the edge yielded in that step
LastDrawn == yielded'[Len(yielded')]

\* the two pallets the endpoints of e resolve to are different and fit together
\* in the first of them
MayMerge(e) ==
    LET host == linePallet[e.origin]
        hosted == linePallet[e.end]
    IN  /\ host # hosted
        /\ heap[host].volume + heap[hosted].volume <= heap[host].maxVolume
        /\ heap[host].weight + heap[hosted].weight <= heap[host].maxWeight

\* C12: in the merge sweep of heuristic the oracle is called for a drawn edge only
\* if its endpoints resolve to two different pallets whose volumes and weights
\* together do not exceed the capacity of the host, and then first on these two;
\* an edge skipped for one of these reasons raises nothing and changes no pallet,
\* no entry of the working list and no back-reference
C12_OracleOnlyWhenFits ==
    [][EdgeDrawn =>
        /\ oracleLog' # <<>> =>
              /\ MayMerge(LastDrawn)
              /\ oracleLog'[1].host = linePallet[LastDrawn.origin]
              /\ oracleLog'[1].hosted = linePallet[LastDrawn.end]
        /\ ~MayMerge(LastDrawn) =>
              /\ oracleLog' = <<>>
              /\ pc' = "sweep"
              /\ UNCHANGED <<linePallet, heap, palletsList, merges>>]_vars

\* after a merge, an edge between two pallets too heavy together has been skipped
C12_Witness ==
    /\ InSweep /\ pc = "sweep" /\ merges >= 1 /\ braI >= 2 /\ oracleLog = <<>>
    /\ LET e == yielded[Len(yielded)]
           host == linePallet[e.origin]
           hosted == linePallet[e.end]
       IN  /\ host # hosted
           /\ heap[host].volume + heap[hosted].volume <= heap[host].maxVolume
           /\ heap[host].weight + heap[hosted].weight > heap[host].maxWeight

\* C13: for a drawn edge that passes the checks, heuristic calls the oracle first
\* with the edge's origin pallet as host; only when that fails it calls it once
\* more, host and hosted swapped, so at most twice per edge; when the second call
\* fails too, the pallets (weight, volume, cases, layer assignment, order lines),
\* the working list and the back-references are as before the edge was drawn
C13_ForwardThenReverseOnce ==
    [][(EdgeDrawn /\ oracleLog' # <<>>) =>
        LET first == oracleLog'[1]
            last == oracleLog'[Len(oracleLog')]
        IN  /\ Len(oracleLog') <= 2
            /\ first.host = linePallet[LastDrawn.origin]
            /\ first.hosted = linePallet[LastDrawn.end]
            /\ Len(oracleLog') = 1 => first.done
            /\ Len(oracleLog') = 2 =>
                  /\ ~first.done
                  /\ last.host = first.hosted /\ last.hosted = first.host
            /\ ~last.done => UNCHANGED <<heap, palletsList, linePallet, merges>>
            /\ last.done =>
                  /\ merges' = merges + 1
                  /\ palletsList' = ListRemove(palletsList, last.hosted)
                  /\ heap'[last.host].orderlines =
                        heap[last.host].orderlines \cup heap[last.hosted].orderlines]_vars

\* after a merge, the oracle has refused an edge between two pallets both ways
C13_Witness ==
    /\ InSweep /\ pc = "sweep" /\ merges >= 1
    /\ Len(oracleLog) = 2 /\ ~oracleLog[1].done /\ ~oracleLog[2].done
    /\ Len(palletsList) = 2

\* a Solver on which the client calls heuristic(beta); the interpreter keeps
\* executing the call it is in, so a step that can be taken is taken
NextHeuristic == CallHeuristic \/ Heuristic \/ HeuristicReturn

SpecHeuristic == Init /\ [][NextHeuristic]_vars /\ WF_vars(NextHeuristic)

\* C14: an invocation of heuristic ends after one pass over the edges: every step
\* of the sweep draws one edge that was not drawn before, the loop ends when and
\* only when every input edge has been drawn once, whatever the draws and the
\* merge outcomes, and the working list is then returned; an invocation that is
\* begun ends, by that return or by an exception (failed construction, failed draw)
C14_SinglePass ==
    /\ []((method = "heuristic" /\ pc = "sweep") =>
            /\ IsPermutationOf(yielded \o arr, edges)
            /\ braI = Len(yielded))
    /\ []((method = "heuristic" /\ pc = "return") =>
            /\ IsPermutationOf(yielded, edges)
            /\ arr = <<>>
            /\ braI = Len(edges))
    /\ [][(method = "heuristic" /\ pc = "sweep" /\ pc' = "sweep") =>
            (braI' = braI + 1 /\ Len(arr') = Len(arr) - 1)]_vars
    /\ [][(method = "heuristic" /\ returned' # returned) =>
            (pc = "return" /\ returned'.kind = "list" /\ returned'.pallets = palletsList)]_vars
    /\ (method = "heuristic") ~> (ReturnedBy("heuristic") \/ pc = "aborted")

\* the loop over three edges has ended, the edges drawn in another order than that
\* of the savings list, with a merge and an edge the oracle refused
C14_Witness ==
    /\ method = "heuristic" /\ pc = "return"
    /\ Len(edges) = 3 /\ Len(yielded) = 3
    /\ yielded # SavingsList(edges)
    /\ yielded[1] # SavingsList(edges)[1]
    /\ merges >= 1

InPairs == method = "sequential" /\ pc = "pairs"

ActiveIn(h, list) == {p \in Range(list) : h[p].active}

\* every order line is on exactly one of the active pallets of list
CoveredByActive(h, list) ==
    \A ol \in AllLines : Cardinality({p \in ActiveIn(h, list) : ol \in h[p].orderlines}) = 1

\* C15: in sequential a merge takes two active pallets, marks the absorbed one
\* inactive and leaves it in the working list; an inactive pallet is never changed
\* again (it neither absorbs nor is absorbed); the list returned is the active
\* pallets of the working list, in its order, and their order lines cover every
\* order line exactly once
C15_InactiveStaysOut ==
    /\ [](InPairs =>
            /\ Len(palletsList) = Len(lines)
            /\ CoveredByActive(heap, palletsList))
    /\ [][(InPairs /\ merges' = merges + 1) =>
            /\ heap[Head(pairs)[1]].active /\ heap[Head(pairs)[2]].active
            /\ heap'[Head(pairs)[1]].active /\ ~heap'[Head(pairs)[2]].active
            /\ Head(pairs)[2] \in Range(palletsList')
            /\ palletsList' = palletsList]_vars
    /\ [][(InPairs /\ pc' = "pairs") =>
            \A p \in Range(palletsList) : ~heap[p].active => heap'[p] = heap[p]]_vars
    /\ [][(InPairs /\ returned' # returned) =>
            /\ returned'.kind = "list"
            /\ returned'.pallets = SelectSeq(palletsList, LAMBDA p : p \in ActiveIn(heap, palletsList))
            /\ \A p \in Range(returned'.pallets) : heap'[p] = heap[p]]_vars
    /\ [](ReturnedBy("sequential") =>
            /\ \A p \in Range(returned.pallets) : heap[p].active
            /\ Partitioned(returned.pallets))

\* sequential has returned two pallets for three order lines: one absorbed another,
\* and the third stayed alone
C15_Witness ==
    /\ ReturnedBy("sequential")
    /\ Len(returned.pallets) = 2
    /\ \E i \in 1..2 : Cardinality(heap[returned.pallets[i]].orderlines) = 2

\* C16: self.history only grows, at its end: an invocation of __call__ changes no
\* entry that is there, appends one entry, the best cost, at the end of every pass
\* of the loop and at no other point, and returns as iterations the number of
\* entries it appended, which is the number of heuristic runs it made after the
\* seeding one; with no time left at the first check (maxtime <= 0) it returns the
\* seed with 0 iterations and appends nothing
C16_HistoryAppendOnly ==
    /\ [][/\ Len(history') >= Len(history)
          /\ SubSeq(history', 1, Len(history)) = history]_vars
    /\ [][(history' # history) =>
            /\ method = "call" /\ pc = "return" /\ phase = "iter"
            /\ Len(history') = Len(history) + 1
            /\ history'[Len(history')] = bestcost']_vars
    /\ [][(method = "call" /\ phase = "iter" /\ pc = "return" /\ pc' = "loop") =>
            Len(history') = Len(history) + 1]_vars
    /\ [][(method = "call" /\ method' = "call" /\ phase = "iter") =>
            ((pc # "construct" /\ pc' = "construct") <=> (iterations' = iterations + 1))]_vars
    /\ [][(method = "call" /\ method' = "call" /\ iterations' # iterations) =>
            (iterations' = iterations + 1 \/ (phase = "seed" /\ iterations' = 0))]_vars
    /\ []((method = "call" /\ pc = "loop") => Len(history) = histMark + iterations)
    /\ [](returned.kind = "triple" =>
            /\ Len(history) = histMark + returned.iterations
            /\ maxtime <= 0 =>
                  /\ returned.iterations = 0
                  /\ Len(history) = histMark
                  /\ returned.bestcost = lastCost)

\* a second invocation has returned after two passes, on a history that held
\* entries of the first
C16_Witness ==
    /\ returned.kind = "triple" /\ calls = 2
    /\ histMark >= 1
    /\ returned.iterations = 2
    /\ Len(history) = histMark + 2

\* a heuristic run of the loop of __call__, past its construction
IterRun == method = "call" /\ phase = "iter" /\ pc \in {"sweep", "return"}

\* C17: every heuristic run builds new pallets, one per order line, and binds the
\* back-references to them before the sweep begins, so the runs of the loop of
\* __call__ work on pallets that are not those of the stored best: no step changes
\* a pallet of the best while the best stays the same; and what is returned costs,
\* by getCost at that time, the bestcost returned
C17_IterationsIndependent ==
    /\ [][(pc = "construct" /\ nextLine' = nextLine + 1) =>
            /\ linePallet'[nextLine] \notin DOMAIN heap
            /\ linePallet'[nextLine] \notin Range(best)
            /\ heap'[linePallet'[nextLine]].orderlines = {nextLine}
            /\ palletsList' = Append(palletsList, linePallet'[nextLine])]_vars
    /\ [](IterRun =>
            /\ Range(palletsList) \cap Range(best) = {}
            /\ \A ol \in AllLines : linePallet[ol] \in Range(palletsList))
    /\ [][(method = "call" /\ phase = "iter" /\ best' = best) =>
            \A p \in Range(best) : p \in DOMAIN heap' /\ heap'[p] = heap[p]]_vars
    /\ [][(pc = "loop" /\ returned' # returned) =>
            /\ returned'.best = best
            /\ \A p \in Range(best) : heap'[p] = heap[p]
            /\ returned'.bestcost = GetCost(Records(heap', returned'.best), dists, lines)]_vars

\* the best is one pallet holding both order lines, and a later run has merged its
\* own two pallets into one
C17_Witness ==
    /\ IterRun /\ pc = "sweep" /\ iterations = 2
    /\ Len(best) = 1 /\ Cardinality(heap[best[1]].orderlines) = 2
    /\ merges = 1 /\ Len(palletsList) = 1
    /\ palletsList[1] # best[1]

\* C18 (as claimed): when __call__ has returned, the pallet back-reference of every
\* order line is a pallet of the returned best solution, and that pallet hosts
\* the order line
C18_BackRefsInReturnedBest ==
    returned.kind = "triple" =>
        \A ol \in AllLines :
            /\ linePallet[ol] \in Range(returned.best)
            /\ ol \in heap[linePallet[ol]].orderlines

\* the order lines of every pallet of list lie in one component of the edge graph
WithinComponents(list) ==
    \A i \in 1..Len(list) :
        \A a, b \in heap[list[i]].orderlines : b \in Component({a})

\* C19: heuristic merges along drawn edges only: at every point of the sweep and
\* in the list returned, two order lines are on one pallet only if a path of input
\* edges (taken either way) joins them; with no edges the list returned has one
\* pallet per order line
C19_MergedAlongEdges ==
    /\ InSweep => WithinComponents(palletsList)
    /\ ReturnedBy("heuristic") =>
          /\ WithinComponents(returned.pallets)
          /\ edges = <<>> => Len(returned.pallets) = Len(lines)

\* the edges leave order line 3 apart: the two others are on one pallet, it is
\* alone on the second
C19_Witness ==
    /\ ReturnedBy("heuristic") /\ edges = LoopEdges
    /\ Len(returned.pallets) = 2
    /\ \E i \in 1..2 : heap[returned.pallets[i]].orderlines = {1, 2}
    /\ \E i \in 1..2 : heap[returned.pallets[i]].orderlines = {3}

NoneEmpty(list) == \A i \in 1..Len(list) : heap[list[i]].orderlines # {}

\* C20: every pallet of the working list of heuristic hosts an order line, in the
\* construction too; from the end of the construction on the list holds as many
\* pallets as there are order lines less the merges made; so the list returned
\* for n >= 1 order lines has 1 to n pallets and no empty one
C20_NoEmptyPallet ==
    /\ (method = "heuristic" /\ pc \in {"construct", "sweep", "return"}) =>
          NoneEmpty(palletsList)
    /\ (method = "heuristic" /\ pc = "construct") =>
          (Len(palletsList) = nextLine - 1 /\ merges = 0)
    /\ InSweep =>
          /\ Len(palletsList) = Len(lines) - merges
          /\ merges <= Len(lines) - 1
    /\ ReturnedBy("heuristic") =>
          /\ Len(returned.pallets) >= 1
          /\ Len(returned.pallets) <= Len(lines)
          /\ NoneEmpty(returned.pallets)

\* the sweep over a ring of three edges has ended with one merge made: two
\* pallets for three order lines
C20_Witness ==
    /\ InSweep /\ pc = "return"
    /\ edges = RingEdges(NumLines)
    /\ merges = 1 /\ Len(palletsList) = 2

====
